---- MODULE Spec2Model ----
(***************************************************************************)
(* NEODatabase (database.py): linking of near-Earth objects and close      *)
(* approaches at construction, the two lookup indexes, and the lazy        *)
(* query generator.                                                        *)
(*                                                                         *)
(* Objects are identified by their position in the list handed to the     *)
(* constructor: NEO n is neos[n], approach a is approaches[a].  A Python   *)
(* str is a sequence of one-character strings, so that str.lower and       *)
(* str.strip are computed and not assumed.                                 *)
(***************************************************************************)
EXTENDS Integers, Sequences, FiniteSets

VARIABLES neos, approaches, constructed, init_error,
          designation_to_index, designation_to_neo, name_to_neo,
          call, gens

vars == <<neos, approaches, constructed, init_error,
          designation_to_index, designation_to_neo, name_to_neo,
          call, gens>>

----------------------------------------------------------------------------
(* Bounds. *)

MaxNeos == 2
MaxApproaches == 3
MaxLookupApproaches == 1
MaxStops == 2

----------------------------------------------------------------------------
(* Values. *)

\* The None singleton, as the value of a reference (approach.neo, a lookup's
\* return value).  NEO references are positions 1..Len(neos).
NoneRef == 0

\* The None singleton where a str is expected (neo.name, a lookup's argument).
NoneStr == <<"None">>

Space == " "

Designations == { <<"a">>, <<"A">>, <<Space, "a">> }
ApproachDesignations == Designations \cup { <<"b">> }
Names == { NoneStr, <<>>, <<"a">>, <<"A">> }
Queries == { NoneStr, <<>>, <<"a">>, <<"A">>, <<Space, "a">>, <<"A", Space>>, <<"b">> }

\* All sequences over S of length 0..n.
SeqUpTo(S, n) == UNION { [1..k -> S] : k \in 0..n }

----------------------------------------------------------------------------
(* str.lower and str.strip. *)

LowerChar(c) == IF c = "A" THEN "a" ELSE c

Lower(s) == [i \in 1..Len(s) |-> LowerChar(s[i])]

RECURSIVE LStrip(_)
LStrip(s) == IF s # <<>> /\ Head(s) = Space THEN LStrip(Tail(s)) ELSE s

RECURSIVE RStrip(_)
RStrip(s) == IF s # <<>> /\ s[Len(s)] = Space
             THEN RStrip(SubSeq(s, 1, Len(s) - 1)) ELSE s

Strip(s) == RStrip(LStrip(s))

----------------------------------------------------------------------------
(* dict: a function whose domain is the set of keys. *)

EmptyDict == [k \in {} |-> NoneRef]

DictSet(d, k, v) == [x \in (DOMAIN d) \cup {k} |-> IF x = k THEN v ELSE d[x]]

DictGet(d, k, default) == IF k \in DOMAIN d THEN d[k] ELSE default

----------------------------------------------------------------------------
(* NEODatabase.__init__ *)

\* for i, neo in enumerate(self._neos): self._designation_to_index[neo.designation] = i
RECURSIVE BuildDesignationToIndex(_, _, _)
BuildDesignationToIndex(ns, i, d) ==
    IF i > Len(ns) THEN d
    ELSE BuildDesignationToIndex(ns, i + 1, DictSet(d, ns[i].designation, i))

\* One iteration of the linking loop, for the approach at position a, with the
\* membership test of the lookup table left out: the subscript raises KeyError.
LinkOneUnguarded(db, a, index) ==
    LET approach == db.approaches[a] IN
    IF approach.neo = NoneRef
    THEN IF approach.designation \in DOMAIN index
         THEN LET n == index[approach.designation] IN
              [db EXCEPT !.neos[n].approaches = Append(@, a),
                         !.approaches[a].neo = n]
         ELSE [db EXCEPT !.raised = TRUE]
    ELSE db

\* One iteration of the linking loop, with the approach put at the front of
\* the NEO's list.
LinkOnePrepend(db, a, index) ==
    LET approach == db.approaches[a] IN
    IF approach.neo = NoneRef /\ approach.designation \in DOMAIN index
    THEN LET n == index[approach.designation] IN
         [db EXCEPT !.neos[n].approaches = <<a>> \o @,
                    !.approaches[a].neo = n]
    ELSE db

\* One iteration of the linking loop, for the approach at position a.
LinkOne(db, a, index) ==
    LET approach == db.approaches[a] IN
    IF approach.neo = NoneRef /\ approach.designation \in DOMAIN index
    THEN LET n == index[approach.designation] IN
         [db EXCEPT !.neos[n].approaches = Append(@, a),
                    !.approaches[a].neo = n]
    ELSE db

\* for approach in self._approaches: ...   (an exception ends the loop)
RECURSIVE LinkFrom(_, _, _)
LinkFrom(db, a, index) ==
    IF a > Len(db.approaches) \/ db.raised THEN db
    ELSE LinkFrom(LinkOne(db, a, index), a + 1, index)

\* {neo.designation.lower(): neo for neo in self._neos}
RECURSIVE BuildDesignationToNeo(_, _, _)
BuildDesignationToNeo(ns, i, d) ==
    IF i > Len(ns) THEN d
    ELSE BuildDesignationToNeo(ns, i + 1, DictSet(d, Lower(ns[i].designation), i))

\* {neo.name.lower(): neo for neo in self._neos if neo.name is not None}
RECURSIVE BuildNameToNeo(_, _, _)
BuildNameToNeo(ns, i, d) ==
    IF i > Len(ns) THEN d
    ELSE BuildNameToNeo(ns, i + 1,
            IF ns[i].name # NoneStr THEN DictSet(d, Lower(ns[i].name), i) ELSE d)

\* The constructor.  When it raises, no database object exists: the objects
\* keep what the loop did to them and the indexes are never built.
Construct ==
    /\ ~constructed /\ ~init_error
    /\ LET index == BuildDesignationToIndex(neos, 1, EmptyDict)
           linked == LinkFrom([neos |-> neos, approaches |-> approaches,
                               raised |-> FALSE], 1, index)
       IN /\ neos' = linked.neos
          /\ approaches' = linked.approaches
          /\ init_error' = linked.raised
          /\ constructed' = ~linked.raised
          /\ IF linked.raised
             THEN UNCHANGED <<designation_to_index, designation_to_neo, name_to_neo>>
             ELSE /\ designation_to_index' = index
                  /\ designation_to_neo' = BuildDesignationToNeo(linked.neos, 1, EmptyDict)
                  /\ name_to_neo' = BuildNameToNeo(linked.neos, 1, EmptyDict)
    /\ UNCHANGED <<call, gens>>

\* self._designation_to_neo.get(designation.strip().lower(), None);
\* None has no strip: AttributeError.
LookupDesignation(d, designation) ==
    IF designation = NoneStr
    THEN [ret |-> NoneRef, raised |-> TRUE]
    ELSE [ret |-> DictGet(d, Lower(Strip(designation)), NoneRef), raised |-> FALSE]

\* self._name_to_neo.get(name.strip().lower(), None)
LookupName(d, name) ==
    IF name = NoneStr
    THEN [ret |-> NoneRef, raised |-> TRUE]
    ELSE [ret |-> DictGet(d, Lower(Strip(name)), NoneRef), raised |-> FALSE]

get_neo_by_designation ==
    /\ constructed
    /\ \E q \in Queries :
          LET r == LookupDesignation(designation_to_neo, q) IN
          call' = [op |-> "get_neo_by_designation", arg |-> q,
                   ret |-> r.ret, raised |-> r.raised]
    /\ UNCHANGED <<neos, approaches, constructed, init_error,
                   designation_to_index, designation_to_neo, name_to_neo, gens>>

get_neo_by_name ==
    /\ constructed
    /\ \E q \in Queries :
          LET r == LookupName(name_to_neo, q) IN
          call' = [op |-> "get_neo_by_name", arg |-> q,
                   ret |-> r.ret, raised |-> r.raised]
    /\ UNCHANGED <<neos, approaches, constructed, init_error,
                   designation_to_index, designation_to_neo, name_to_neo, gens>>

----------------------------------------------------------------------------
(* NEODatabase.query: a generator.  A generator object is a record: pc is   *)
(* where it is suspended ("created": not started; "y118", "y133": at the    *)
(* yield of that line; "done": returned), idx the position of the approach  *)
(* the for loop is at, out the approaches it yielded so far, evaluated the  *)
(* <<filter, approach>> calls it made, requests the number of next() calls  *)
(* and stops the number of them that ended in StopIteration.                *)

\* The filters a caller passes: callables from a close approach to a boolean.
Predicates == { "linked", "odd", "low" }

\* filter(approach)
Apply(filter, a) ==
    CASE filter = "linked" -> approaches[a].neo # NoneRef
      [] filter = "odd" -> a % 2 = 1
      [] filter = "low" -> a <= 2

\* for filter in filters: ... , from the given value of result on.
RECURSIVE InnerLoop(_, _, _, _)
InnerLoop(remaining, a, result, evaluated) ==
    IF remaining = {} THEN [result |-> result, evaluated |-> evaluated]
    ELSE LET filter == CHOOSE f \in remaining : TRUE IN
         IF Apply(filter, a)
         THEN InnerLoop(remaining \ {filter}, a, TRUE, evaluated \cup {<<filter, a>>})
         ELSE [result |-> FALSE, evaluated |-> evaluated \cup {<<filter, a>>}]

\* The inner loop without its break.
RECURSIVE InnerLoopNoBreak(_, _, _, _)
InnerLoopNoBreak(remaining, a, result, evaluated) ==
    IF remaining = {} THEN [result |-> result, evaluated |-> evaluated]
    ELSE LET filter == CHOOSE f \in remaining : TRUE IN
         InnerLoopNoBreak(remaining \ {filter}, a, Apply(filter, a),
                          evaluated \cup {<<filter, a>>})

\* Lines 120-128 with result starting as True.
RunFiltersVacuous(filters, a) == InnerLoop(filters, a, TRUE, {})

\* Lines 120-128 without the break.
RunFiltersNoBreak(filters, a) == InnerLoopNoBreak(filters, a, FALSE, {})

\* result = False; for filter in filters: ...
RunFilters(filters, a) == InnerLoop(filters, a, FALSE, {})

\* The generator's run from the top of the for loop at position a (LoopFrom)
\* and from line 120 within the iteration at position a (FromLine120), up to
\* its next yield or its return.
RECURSIVE LoopFrom(_, _, _)
RECURSIVE FromLine120(_, _, _)
LoopFrom(filters, a, evaluated) ==
    IF a > Len(approaches)
    THEN [pc |-> "done", idx |-> a, yielded |-> NoneRef, evaluated |-> evaluated]
    ELSE IF Cardinality(filters) = 0
         THEN [pc |-> "y118", idx |-> a, yielded |-> a, evaluated |-> evaluated]
         ELSE FromLine120(filters, a, evaluated)

FromLine120(filters, a, evaluated) ==
    LET r == RunFilters(filters, a) IN
    IF r.result = FALSE
    THEN LoopFrom(filters, a + 1, evaluated \cup r.evaluated)
    ELSE [pc |-> "y133", idx |-> a, yielded |-> a,
          evaluated |-> evaluated \cup r.evaluated]

\* next(generator) where a returned generator starts over.
ResumeRestartable(gen) ==
    CASE gen.pc \in {"created", "done"} -> LoopFrom(gen.filters, 1, {})
      [] gen.pc = "y118" -> FromLine120(gen.filters, gen.idx, {})
      [] gen.pc = "y133" -> LoopFrom(gen.filters, gen.idx + 1, {})

\* next(generator) where the first request filters the whole list.
ResumeMaterialized(gen) ==
    CASE gen.pc = "created" ->
            [LoopFrom(gen.filters, 1, {}) EXCEPT
                !.evaluated = UNION { RunFilters(gen.filters, a).evaluated :
                                        a \in 1..Len(approaches) }]
      [] gen.pc = "y118" -> FromLine120(gen.filters, gen.idx, {})
      [] gen.pc = "y133" -> LoopFrom(gen.filters, gen.idx + 1, {})
      [] gen.pc = "done" ->
            [pc |-> "done", idx |-> gen.idx, yielded |-> NoneRef, evaluated |-> {}]

\* next(generator): the run from where the generator is suspended.
Resume(gen) ==
    CASE gen.pc = "created" -> LoopFrom(gen.filters, 1, {})
      [] gen.pc = "y118" -> FromLine120(gen.filters, gen.idx, {})
      [] gen.pc = "y133" -> LoopFrom(gen.filters, gen.idx + 1, {})
      [] gen.pc = "done" ->
            [pc |-> "done", idx |-> gen.idx, yielded |-> NoneRef, evaluated |-> {}]

NoGen == [pc |-> "none", filters |-> {}, idx |-> 0, out |-> <<>>,
          evaluated |-> {}, requests |-> 0, stops |-> 0]

\* db.query(filters): the call makes the generator object and runs none of
\* the body.
query(g) ==
    /\ constructed
    /\ gens[g].pc = "none"
    /\ \E filters \in SUBSET Predicates :
          gens' = [gens EXCEPT ![g] = [NoGen EXCEPT !.pc = "created",
                                                    !.filters = filters]]
    /\ UNCHANGED <<neos, approaches, constructed, init_error,
                   designation_to_index, designation_to_neo, name_to_neo, call>>

\* next(generator), by the consumer of generator g.
GeneratorNext(g) ==
    /\ gens[g].pc # "none"
    /\ gens[g].pc = "done" => gens[g].stops < MaxStops
    /\ LET r == Resume(gens[g]) IN
       gens' = [gens EXCEPT ![g] =
                  [pc |-> r.pc,
                   filters |-> @.filters,
                   idx |-> r.idx,
                   out |-> IF r.yielded # NoneRef THEN Append(@.out, r.yielded) ELSE @.out,
                   evaluated |-> @.evaluated \cup r.evaluated,
                   requests |-> @.requests + 1,
                   stops |-> IF r.pc = "done" THEN @.stops + 1 ELSE @.stops]]
    /\ UNCHANGED <<neos, approaches, constructed, init_error,
                   designation_to_index, designation_to_neo, name_to_neo, call>>

----------------------------------------------------------------------------
(* Inputs of the constructor: unlinked collections. *)

NeoObjects(names) ==
    [designation : Designations, name : names, approaches : {<<>>}]

ApproachObjects(designations) ==
    [designation : designations, neo : {NoneRef}]

NoCall == [op |-> "none", arg |-> <<>>, ret |-> NoneRef, raised |-> FALSE]

InitCommon ==
    /\ constructed = FALSE
    /\ init_error = FALSE
    /\ designation_to_index = EmptyDict
    /\ designation_to_neo = EmptyDict
    /\ name_to_neo = EmptyDict
    /\ call = NoCall
    /\ gens = [g \in 1..2 |-> NoGen]

Init ==
    /\ neos \in SeqUpTo(NeoObjects(Names), MaxNeos)
    /\ approaches \in SeqUpTo(ApproachObjects(ApproachDesignations), MaxApproaches)
    /\ InitCommon

Next == Construct

Spec == Init /\ [][Next]_vars

InitLookup ==
    /\ neos \in SeqUpTo(NeoObjects(Names), MaxNeos)
    /\ approaches \in SeqUpTo(ApproachObjects(ApproachDesignations), MaxLookupApproaches)
    /\ InitCommon

NextLookup == Construct \/ get_neo_by_designation \/ get_neo_by_name

SpecLookup == InitLookup /\ [][NextLookup]_vars

QueryNeos == << [designation |-> <<"a">>, name |-> NoneStr, approaches |-> <<>>] >>

InitQuery ==
    /\ neos = QueryNeos
    /\ approaches \in SeqUpTo(ApproachObjects({<<"a">>, <<"b">>}), MaxApproaches)
    /\ InitCommon

NextQuery ==
    \/ Construct
    \/ \E g \in 1..2 : query(g)
    \/ \E g \in 1..2 : GeneratorNext(g)

SpecQuery == InitQuery /\ [][NextQuery]_vars

----------------------------------------------------------------------------
(* Linking. *)

Range(s) == { s[i] : i \in 1..Len(s) }

Occurrences(s, x) == Cardinality({ i \in 1..Len(s) : s[i] = x })

DistinctDesignations ==
    \A m, n \in 1..Len(neos) : m # n => neos[m].designation # neos[n].designation

\* C1: after construction on unlinked input with pairwise distinct NEO
\* designations, every approach whose _designation equals the designation of
\* NEO n has neo = n and occurs exactly once in n.approaches, and n.approaches
\* lists its approaches in the order of the input approach list.
C1_Linked ==
    (constructed /\ DistinctDesignations) =>
        \A n \in 1..Len(neos) :
            /\ \A a \in 1..Len(approaches) :
                  approaches[a].designation = neos[n].designation =>
                      /\ approaches[a].neo = n
                      /\ Occurrences(neos[n].approaches, a) = 1
            /\ \A i, j \in 1..Len(neos[n].approaches) :
                  i < j => neos[n].approaches[i] < neos[n].approaches[j]

C1_Witness ==
    /\ constructed /\ DistinctDesignations /\ Len(neos) = 2
    /\ \E n \in 1..Len(neos) : neos[n].approaches = <<1, 3>>
    /\ approaches[2].neo \notin {NoneRef, approaches[1].neo}

Unmatched(a) ==
    \A n \in 1..Len(neos) : approaches[a].designation # neos[n].designation

\* C2: construction never raises; an approach whose _designation equals no
\* NEO's designation keeps neo = None and is in no NEO's approaches.
C2_UnmatchedLeftAlone ==
    /\ ~init_error
    /\ constructed =>
          \A a \in 1..Len(approaches) :
              Unmatched(a) =>
                  /\ approaches[a].neo = NoneRef
                  /\ \A n \in 1..Len(neos) : a \notin Range(neos[n].approaches)

C2_Witness ==
    /\ constructed /\ Len(neos) >= 1 /\ Len(approaches) >= 2
    /\ Unmatched(1) /\ approaches[1].neo = NoneRef
    /\ approaches[2].neo # NoneRef

----------------------------------------------------------------------------
(* Lookup. *)

\* The trimmed, lowercased form of a str.
Key(s) == Lower(Strip(s))

\* The NEOs whose designation has the trimmed, lowercased form k.
DesignationMatches(k) == { n \in 1..Len(neos) : Key(neos[n].designation) = k }

\* C3: get_neo_by_designation(q) returns a NEO whenever the trimmed, lowercased
\* q equals the trimmed, lowercased designation of a NEO of the database (that
\* NEO when it is the only one), and returns None without raising otherwise.
C3_DesignationLookup ==
    (call.op = "get_neo_by_designation" /\ call.arg # NoneStr) =>
        LET M == DesignationMatches(Key(call.arg)) IN
        /\ ~call.raised
        /\ M # {} => call.ret \in M
        /\ M = {} => call.ret = NoneRef

\* C4: get_neo_by_name("") and get_neo_by_name(None) return None, also when
\* the database holds NEOs whose name is "" or None.
C4_EmptyNameAbsent ==
    (call.op = "get_neo_by_name" /\ call.arg \in {<<>>, NoneStr}) =>
        (~call.raised /\ call.ret = NoneRef)

\* The NEOs whose designation (name) has the lowercased form k.
SameLowerDesignation(k) == { n \in 1..Len(neos) : Lower(neos[n].designation) = k }

SameLowerName(k) ==
    { n \in 1..Len(neos) : neos[n].name # NoneStr /\ Lower(neos[n].name) = k }

Last(S) == CHOOSE n \in S : \A m \in S : m <= n

\* C9: when two or more NEOs have designations (names) with the same
\* lowercased form, construction does not raise and the lookup of that form
\* returns the last of them in the input sequence.
C9_LastDuplicateWins ==
    /\ ~init_error
    /\ (call.op = "get_neo_by_designation"
          /\ Cardinality(SameLowerDesignation(call.arg)) >= 2) =>
            (~call.raised /\ call.ret = Last(SameLowerDesignation(call.arg)))
    /\ (call.op = "get_neo_by_name" /\ call.arg # NoneStr
          /\ Cardinality(SameLowerName(call.arg)) >= 2) =>
            (~call.raised /\ call.ret = Last(SameLowerName(call.arg)))

\* C10: with pairwise distinct designations, get_neo_by_designation of a
\* linked approach's _designation returns the NEO the approach is linked to.
C10_LinkAndLookupAgree ==
    (call.op = "get_neo_by_designation" /\ DistinctDesignations) =>
        \A a \in 1..Len(approaches) :
            (approaches[a].neo # NoneRef /\ call.arg = approaches[a].designation) =>
                (~call.raised /\ call.ret = approaches[a].neo)

----------------------------------------------------------------------------
(* Query. *)

Positions == [i \in 1..Len(approaches) |-> i]

AllPass(filters, a) == \A f \in filters : Apply(f, a)

Matching(filters) == SelectSeq(Positions, LAMBDA a : AllPass(filters, a))

\* C5: a query with no filters yields every approach exactly once in the
\* order of the approach list, linked or not: what it has yielded is always
\* the list's first approaches, and all of them once it has returned.
C5_EmptyFiltersYieldAll ==
    \A g \in 1..2 :
        gens[g].filters = {} =>
            /\ \A i \in 1..Len(gens[g].out) : gens[g].out[i] = i
            /\ gens[g].pc = "done" => gens[g].out = Positions

C5_Witness ==
    \E g \in 1..2 :
        /\ gens[g].pc = "done" /\ gens[g].filters = {}
        /\ gens[g].out = <<1, 2, 3>>
        /\ approaches[2].neo = NoneRef /\ approaches[3].neo # NoneRef

\* C6: a query with a non-empty set of filters yields exactly the approaches
\* that every filter accepts, each once, in the order of the approach list.
C6_FiltersConjunction ==
    \A g \in 1..2 :
        (gens[g].filters # {} /\ gens[g].pc = "done") =>
            gens[g].out = Matching(gens[g].filters)

C6_Witness ==
    \E g \in 1..2 :
        /\ gens[g].pc = "done" /\ Cardinality(gens[g].filters) = 2
        /\ gens[g].out = <<1, 3>>
        /\ \E f \in gens[g].filters : Apply(f, 2)

\* C7: two queries with the same filters yield the same sequence, and a
\* generator that has returned stays returned and yields nothing more.
C7_DeterministicAndExhausted ==
    /\ [](\A g, h \in 1..2 :
            (gens[g].pc = "done" /\ gens[h].pc = "done"
                /\ gens[g].filters = gens[h].filters) => gens[g].out = gens[h].out)
    /\ [][\A g \in 1..2 :
            gens[g].pc = "done" =>
                (gens'[g].pc = "done" /\ gens'[g].out = gens[g].out)]_vars

C7_Witness ==
    /\ gens[1].pc = "done" /\ gens[2].pc = "done"
    /\ gens[1].filters = gens[2].filters
    /\ Len(gens[1].out) = 2 /\ Len(approaches) = 3
    /\ gens[1].stops >= 2

\* C8: while every request of the consumer has been answered with an
\* element, no filter has been called on an approach after the last one
\* yielded (on none at all before the first request).
C8_PullBased ==
    \A g \in 1..2 :
        gens[g].requests = Len(gens[g].out) =>
            \A e \in gens[g].evaluated :
                /\ gens[g].out # <<>>
                /\ e[2] <= gens[g].out[Len(gens[g].out)]

C8_Witness ==
    \E g \in 1..2 :
        /\ gens[g].pc = "y133" /\ gens[g].requests = 1
        /\ gens[g].out = <<2>> /\ Len(approaches) = 3
        /\ \E f \in gens[g].filters : <<f, 1>> \in gens[g].evaluated

====
